---- MODULE Spec2Model ----
(***************************************************************************)
(* TreeSet and TreeMultiSet of TypeScript-STL: an element list (data_)     *)
(* kept in step with a tree index (tree_) by the post-process hooks        *)
(* handle_insert and handle_erase.                                         *)
(*                                                                         *)
(* A cell is a natural number, the index of its value in val; cells are    *)
(* never reused, so an erased cell keeps its identity and its value, as    *)
(* the list node object does.  An iterator is a cell or End.  A tree node  *)
(* is identified with its payload, the iterator of the cell it indexes.    *)
(* The tree is kept as its in-order walk: rotations and recolouring do not *)
(* change the in-order walk, so they leave this state unchanged.           *)
(***************************************************************************)
EXTENDS Integers, Sequences, FiniteSets, TLC

MaxVal == 3      \* element values are 1..MaxVal
MaxHist == 4     \* insert(value) calls since construction or clear()
MaxCells == 3    \* cells created during a run
MaxLen == 3      \* elements of a Vector
MaxElem == 2     \* the elements of a Vector are 1..MaxElem

Values == 1 .. MaxVal
End == 0         \* the past-the-end iterator (no cell)
Null == -1       \* the tree's "no node" answer
Kinds == {"set", "multiset"}
VNames == {"A", "B"}
Elems == 1 .. MaxElem
Comparators == {"less", "greater", "half"}

VARIABLES
    kind,   \* "set": TreeSet, "multiset": TreeMultiSet
    cmp,    \* the comparator handed to the constructor
    data,   \* data_: the element list, a sequence of cells
    val,    \* val[c]: the value of cell c, for every cell ever created
    tree,   \* tree_: the in-order walk of the index, a sequence of cells
    hist,   \* the values passed to insert(value) since construction or clear()
    last,   \* the last call: its name, arguments, the list before it, its result
    other,  \* the tree set this one is swapped with: its data_, tree_, comparator
    vec,    \* vec[w]: the elements of the Vector w
    vlast   \* the last call on a Vector: its name, the vector, its argument

vars == <<kind, cmp, data, val, tree, hist, last, other, vec, vlast>>

-----------------------------------------------------------------------------
(* Functional: the default predicates on numbers.                          *)

less(a, b) == a < b

equal_to(a, b) == a = b

(* The comparator the container was constructed with: std.less by default, *)
(* a descending order, or an order whose equivalence is coarser than       *)
(* equality (2 and 3 are equivalent under "half").                         *)
Compare(a, b) ==
    CASE cmp = "less" -> less(a, b)
      [] cmp = "greater" -> b < a
      [] cmp = "half" -> (a \div 2) < (b \div 2)

-----------------------------------------------------------------------------
(* The element list.                                                       *)

Range(s) == {s[i] : i \in 1 .. Len(s)}

Live(it) == it \in Range(data)

PosOf(s, c) == CHOOSE i \in 1 .. Len(s) : s[i] = c

InsertAt(s, p, c) == SubSeq(s, 1, p - 1) \o <<c>> \o SubSeq(s, p, Len(s))

Iterators == Range(data) \cup {End}

(* it.next(): the successor in the list.  The successor of an iterator     *)
(* that the list no longer holds (an invalidated iterator) is undefined:   *)
(* any iterator of the list.  next() on end() may return end().            *)
IterNext(it) ==
    IF it = End THEN {End}
    ELSE IF ~Live(it) THEN Iterators
    ELSE IF PosOf(data, it) = Len(data) THEN {End}
    ELSE {data[PosOf(data, it) + 1]}

(* The list position data_.insert(it, ...) inserts before.                 *)
ListPos(it) ==
    IF it = End THEN {Len(data) + 1}
    ELSE IF ~Live(it) THEN 1 .. (Len(data) + 1)
    ELSE {PosOf(data, it)}

-----------------------------------------------------------------------------
(* The tree index.                                                         *)

(* find(k): the node with the smallest key not less than k, Null if k      *)
(* exceeds every key.  When nodes equivalent to k exist the search stops   *)
(* at whichever of them it meets first on its way down; otherwise it ends  *)
(* at the in-order first node of a greater key.                            *)
tree_find(k) ==
    LET cand == {i \in 1 .. Len(tree) : ~Compare(val[tree[i]], k)}
        equiv == {i \in cand : ~Compare(k, val[tree[i]])}
    IN  IF cand = {} THEN {Null}
        ELSE IF equiv # {} THEN {tree[i] : i \in equiv}
        ELSE {tree[CHOOSE i \in cand : \A j \in cand : i <= j]}

tree_lower_bound(k) ==
    LET cand == {i \in 1 .. Len(tree) : ~Compare(val[tree[i]], k)}
    IN  IF cand = {} THEN End
        ELSE tree[CHOOSE i \in cand : \A j \in cand : i <= j]

tree_upper_bound(k) ==
    LET cand == {i \in 1 .. Len(tree) : Compare(k, val[tree[i]])}
    IN  IF cand = {} THEN End
        ELSE tree[CHOOSE i \in cand : \A j \in cand : i <= j]

tree_equal_range(k) == <<tree_lower_bound(k), tree_upper_bound(k)>>

(* insert(it): link a node for the cell it, after every node whose key is  *)
(* not greater than the cell's.                                            *)
tree_insert(t, v, it) ==
    LET before == {i \in 1 .. Len(t) : ~Compare(v[it], v[t[i]])}
    IN  InsertAt(t, Cardinality(before) + 1, it)

(* erase(it): unlink the node whose payload is it, if there is one.        *)
tree_erase(t, it) == SelectSeq(t, LAMBDA c : c # it)

-----------------------------------------------------------------------------
(* Post-process hooks.                                                     *)

handle_insert(t, v, first) == tree_insert(t, v, first)

(* for (; !first.equal_to(last); first = first.next()) tree_.erase(last):  *)
(* cells is the walk from first up to, not including, last.                *)
RECURSIVE handle_erase(_, _, _)
handle_erase(t, cells, lastIt) ==
    IF cells = <<>> THEN t
    ELSE handle_erase(tree_erase(t, lastIt), Tail(cells), lastIt)

-----------------------------------------------------------------------------
(* Accessors.                                                              *)

(* find(val): every answer the lookup can give.                            *)
find(k) ==
    {IF node = Null \/ ~equal_to(val[node], k) THEN End ELSE node :
        node \in tree_find(k)}

has(k) == {it # End : it \in find(k)}

lower_bound(k) == tree_lower_bound(k)

SetUpperBound(k) == tree_lower_bound(k)

MultiUpperBound(k) == tree_upper_bound(k)

upper_bound(k) == IF kind = "set" THEN SetUpperBound(k) ELSE MultiUpperBound(k)

equal_range(k) == tree_equal_range(k)

(* key_comp() and value_comp() both return this.tree_.key_comp().         *)
key_comp == cmp

value_comp == cmp

(* begin(): the first cell of the list, end() when there is none.          *)
begin == IF data = <<>> THEN End ELSE data[1]

(* TreeMultiSet.count(val): from find(val), step forward while the         *)
(* iterator is not end() and its value equals val; n counts the steps.  A  *)
(* walk meets no more cells than were ever created.                        *)
RECURSIVE CountFrom(_, _, _)
CountFrom(it, k, n) ==
    IF it = End \/ ~equal_to(val[it], k) \/ n >= Len(val) THEN {n}
    ELSE UNION {CountFrom(nx, k, n + 1) : nx \in IterNext(it)}

count(k) == UNION {CountFrom(it, k, 0) : it \in find(k)}

-----------------------------------------------------------------------------
(* insert(value).                                                          *)

NoCall == [op |-> "none", arg |-> 0, hint |-> End, pre |-> <<>>,
           ret |-> End, inserted |-> FALSE, right |-> FALSE]

(* A slip in the insertion: the new cell takes the place of the cell at    *)
(* position p instead of going before it.                                  *)
PlaceOver(p, v, call) ==
    LET c == Len(val) + 1
        nval == Append(val, v)
    IN  /\ Len(val) < MaxCells
        /\ val' = nval
        /\ data' = IF p <= Len(data) THEN [data EXCEPT ![p] = c]
                   ELSE Append(data, c)
        /\ tree' = handle_insert(tree, nval, c)
        /\ last' = [call EXCEPT !.ret = c, !.inserted = TRUE]

(* The cell is created, placed in the list before position p, and handed   *)
(* to handle_insert.                                                       *)
Place(p, v, call) ==
    LET c == Len(val) + 1
        nval == Append(val, v)
    IN  /\ Len(val) < MaxCells
        /\ val' = nval
        /\ data' = InsertAt(data, p, c)
        /\ tree' = handle_insert(tree, nval, c)
        /\ last' = [call EXCEPT !.ret = c, !.inserted = TRUE]

(* A slip in insert_by_val: the cell goes after the node found, whatever   *)
(* its key.                                                                *)
SetInsertItAfter(node, v) ==
    IF node = Null THEN {End} ELSE IterNext(node)

(* TreeSet.insert_by_val: where the new cell goes, given the node found.   *)
SetInsertIt(node, v) ==
    IF node = Null THEN {End}
    ELSE IF less(val[node], v) THEN IterNext(node)
    ELSE {node}

SetInsertByVal(v, call) ==
    \E node \in tree_find(v) :
        IF node # Null /\ equal_to(val[node], v)
        THEN /\ last' = [call EXCEPT !.ret = node, !.inserted = FALSE]
             /\ UNCHANGED <<data, val, tree>>
        ELSE \E it \in SetInsertIt(node, v) : \E p \in ListPos(it) :
                Place(p, v, call)

(* while (it.equal_to(this.end()) == false && std.less(it.value, val))     *)
(*     it = it.next();   from an iterator of the list                      *)
RECURSIVE SkipLess(_, _)
SkipLess(it, v) ==
    IF it = End \/ ~less(val[it], v) THEN it
    ELSE SkipLess(CHOOSE n \in IterNext(it) : TRUE, v)

(* A slip in insert_by_val: the last branch steps past the node found.     *)
MultiInsertItAfter(node, v) ==
    IF node = Null THEN {End}
    ELSE IF equal_to(val[node], v) THEN IterNext(node)
    ELSE IF less(val[node], v) THEN {SkipLess(it, v) : it \in IterNext(node)}
    ELSE IterNext(node)

(* TreeMultiSet.insert_by_val: where the new cell goes.                    *)
MultiInsertIt(node, v) ==
    IF node = Null THEN {End}
    ELSE IF equal_to(val[node], v) THEN IterNext(node)
    ELSE IF less(val[node], v) THEN {SkipLess(it, v) : it \in IterNext(node)}
    ELSE {node}

MultiInsertByVal(v, call) ==
    \E node \in tree_find(v) : \E it \in MultiInsertIt(node, v) :
        \E p \in ListPos(it) : Place(p, v, call)

insert_by_val(v, call) ==
    IF kind = "set" THEN SetInsertByVal(v, call) ELSE MultiInsertByVal(v, call)

InsertVal ==
    \E v \in Values :
        /\ kind \in Kinds
        /\ Len(hist) < MaxHist
        /\ insert_by_val(v, [NoCall EXCEPT !.op = "insert", !.arg = v, !.pre = data])
        /\ hist' = Append(hist, v)
        /\ UNCHANGED <<kind, cmp, other, vec, vlast>>

-----------------------------------------------------------------------------
(* insert(hint, value).                                                    *)

(* compare(hint.value, val).  end() holds no value: reading it is          *)
(* undefined, the comparison may come out either way.                      *)
HintLess(hint, v) == IF hint = End THEN BOOLEAN ELSE {Compare(val[hint], v)}

(* TreeSet: hint < current && current < next                               *)
SetHintRight(hint, v) ==
    {b /\ (n = End \/ Compare(v, val[n])) :
        b \in HintLess(hint, v), n \in IterNext(hint)}

(* The position of the list the right-hint branch inserts before:          *)
(* data_.insert(hint.get_list_iterator(), val).                            *)
HintPos(hint) == ListPos(hint)

SetInsertByHint(hint, v, call) ==
    \E h \in has(v) :
        IF h
        THEN /\ last' = [call EXCEPT !.ret = End, !.inserted = FALSE]
             /\ UNCHANGED <<data, val, tree>>
        ELSE \E r \in SetHintRight(hint, v) :
                IF r
                THEN \E p \in HintPos(hint) :
                        Place(p, v, [call EXCEPT !.right = TRUE])
                ELSE SetInsertByVal(v, call)

(* TreeMultiSet: hint <= current && current <= next                        *)
MultiHintLessEq(hint, v) ==
    IF hint = End THEN BOOLEAN
    ELSE {Compare(val[hint], v) \/ equal_to(val[hint], v)}

MultiHintRight(hint, v) ==
    {b /\ (n = End \/ Compare(v, val[n]) \/ equal_to(v, val[n])) :
        b \in MultiHintLessEq(hint, v), n \in IterNext(hint)}

MultiInsertByHint(hint, v, call) ==
    \E r \in MultiHintRight(hint, v) :
        IF r
        THEN \E p \in HintPos(hint) : Place(p, v, [call EXCEPT !.right = TRUE])
        ELSE MultiInsertByVal(v, call)

insert_by_hint(hint, v, call) ==
    IF kind = "set" THEN SetInsertByHint(hint, v, call)
    ELSE MultiInsertByHint(hint, v, call)

InsertHint ==
    \E hint \in Iterators : \E v \in Values :
        /\ kind \in Kinds
        /\ insert_by_hint(hint, v,
              [NoCall EXCEPT !.op = "insert_hint", !.arg = v, !.hint = hint,
                             !.pre = data])
        /\ UNCHANGED <<kind, cmp, hist, other, vec, vlast>>

-----------------------------------------------------------------------------
(* erase(iterator), erase(first, last), clear().                           *)

(* The list drops the cells at positions i .. j-1, then the hook is called *)
(* with the first erased cell and the iterator that followed the range.    *)
erase_by_range(i, j, name) ==
    LET cells == SubSeq(data, i, j - 1)
        lastIt == IF j > Len(data) THEN End ELSE data[j]
    IN  /\ kind \in Kinds
        /\ data' = SubSeq(data, 1, i - 1) \o SubSeq(data, j, Len(data))
        /\ tree' = handle_erase(tree, cells, lastIt)
        /\ last' = [NoCall EXCEPT !.op = name, !.arg = val[data[i]],
                                  !.hint = data[i], !.pre = data, !.ret = lastIt]
        /\ UNCHANGED <<kind, cmp, val, hist, other, vec, vlast>>

EraseIt ==
    \E i \in 1 .. Len(data) : erase_by_range(i, i + 1, "erase")

EraseRange ==
    \E i \in 1 .. Len(data) : \E j \in (i + 1) .. (Len(data) + 1) :
        erase_by_range(i, j, "erase_range")

(* A slip in clear(): tree_ is replaced by a tree with the default         *)
(* comparator instead of being cleared.                                    *)
ClearNewTree ==
    /\ kind \in Kinds
    /\ data' = <<>>
    /\ tree' = <<>>
    /\ hist' = <<>>
    /\ cmp' = "less"
    /\ last' = [NoCall EXCEPT !.op = "clear", !.pre = data]
    /\ UNCHANGED <<kind, val, other, vec, vlast>>

(* A slip in clear(): the list is emptied, tree_.clear() is forgotten.     *)
ClearListOnly ==
    /\ kind \in Kinds
    /\ data' = <<>>
    /\ hist' = <<>>
    /\ last' = [NoCall EXCEPT !.op = "clear", !.pre = data]
    /\ UNCHANGED <<kind, cmp, val, tree, other, vec, vlast>>

(* clear(): super.clear(); this.tree_.clear().  The set keeps its tree     *)
(* object, and with it the comparator.                                     *)
Clear ==
    /\ kind \in Kinds
    /\ data' = <<>>
    /\ tree' = <<>>
    /\ hist' = <<>>
    /\ last' = [NoCall EXCEPT !.op = "clear", !.pre = data]
    /\ UNCHANGED <<kind, cmp, val, other, vec, vlast>>

-----------------------------------------------------------------------------
(* swap(obj).                                                              *)

(* A tree set without elements, constructed with the comparator c.         *)
NoSet(c) == [data |-> <<>>, tree |-> <<>>, cmp |-> c, hist |-> <<>>]

(* This tree set: its list, its tree, the comparator the tree holds, and   *)
(* the insert(value) calls that built the list.                            *)
This == [data |-> data, tree |-> tree, cmp |-> cmp, hist |-> hist]

(* A slip in swap_tree_set: only data_ changes hands.                      *)
swap_data_only(this, obj) ==
    [this |-> [this EXCEPT !.data = obj.data, !.hist = obj.hist],
     obj  |-> [obj EXCEPT !.data = this.data, !.hist = this.hist]]

(* [this.data_, obj.data_] = [obj.data_, this.data_];                      *)
(* [this.tree_, obj.tree_] = [obj.tree_, this.tree_];                      *)
(* The comparator is a field of tree_ and goes with it.                    *)
swap_tree_set(this, obj) ==
    [this |-> [data |-> obj.data, tree |-> obj.tree, cmp |-> obj.cmp,
               hist |-> obj.hist],
     obj  |-> [data |-> this.data, tree |-> this.tree, cmp |-> this.cmp,
               hist |-> this.hist]]

Swap ==
    LET r == swap_tree_set(This, other)
    IN  /\ kind \in Kinds
        /\ data' = r.this.data
        /\ tree' = r.this.tree
        /\ cmp' = r.this.cmp
        /\ hist' = r.this.hist
        /\ other' = r.obj
        /\ last' = [NoCall EXCEPT !.op = "swap", !.pre = data]
        /\ UNCHANGED <<kind, val, vec, vlast>>

-----------------------------------------------------------------------------
(* Vector: an Array of elements.  v is the elements of every vector, by    *)
(* name; an iterator is the vector it was taken from and an index, -1 for  *)
(* end().                                                                  *)

Undefined == -2  \* what reading an Array outside its indices yields

Min(a, b) == IF a < b THEN a ELSE b

Max(a, b) == IF a < b THEN b ELSE a

(* No call yet.  A call records the vector it was made on, its value and   *)
(* count or index arguments, its iterator arguments, the iterator or the   *)
(* value (prev) it returned and the error it threw.                        *)
NoVectorCall ==
    [op |-> "none", w |-> "A", arg |-> 0, n |-> 0, prev |-> 0,
     position |-> [src |-> "A", index |-> -1],
     first |-> [src |-> "A", index |-> -1],
     second |-> [src |-> "A", index |-> -1],
     ret |-> [src |-> "A", index |-> -1], thrown |-> "none"]

size(s) == Len(s)

capacity(s) == Len(s)

(* A slip in reserve: the Array is grown to n slots.                       *)
reserve_slots(s, n) ==
    [i \in 1 .. Max(Len(s), n) |-> IF i <= Len(s) THEN s[i] ELSE Undefined]

(* reserve(n): nothing to do.                                              *)
reserve(s, n) == s

(* at(index): if (index < this.size()) return this[index]; else throw.     *)
at(s, index) ==
    IF index < size(s)
    THEN [thrown |-> "none",
          ret |-> IF index >= 0 THEN s[index + 1] ELSE Undefined]
    ELSE [thrown |-> "OutOfRange", ret |-> Undefined]

(* set(index, val) for index >= 0: if (index > this.length) throw;         *)
(* prev = this[index]; this[index] = val; return prev.  Writing at the     *)
(* index this.length makes the Array one element longer.                   *)
set(s, index, x) ==
    IF index > Len(s)
    THEN [thrown |-> "OutOfRange", arr |-> s, ret |-> Undefined]
    ELSE IF index = Len(s)
    THEN [thrown |-> "none", arr |-> Append(s, x), ret |-> Undefined]
    ELSE [thrown |-> "none", arr |-> [s EXCEPT ![index + 1] = x],
          ret |-> s[index + 1]]

front(s) == at(s, 0)

back(s) == at(s, Len(s) - 1)

vector_end(w) == [src |-> w, index |-> -1]

(* A slip in begin(): the empty vector is not told apart.                  *)
vector_begin_at_zero(v, w) == [src |-> w, index |-> 0]

(* begin(): end() if the vector is empty, else the iterator at index 0.    *)
vector_begin(v, w) ==
    IF v[w] = <<>> THEN vector_end(w) ELSE [src |-> w, index |-> 0]

(* A slip in next(): the last element is stepped over to index size().     *)
vector_next_past(v, it) ==
    IF it.index > size(v[it.src]) - 1 THEN vector_end(it.src)
    ELSE [it EXCEPT !.index = @ + 1]

(* VectorIterator.next, value, equal_to.                                   *)
vector_next(v, it) ==
    IF it.index >= size(v[it.src]) - 1 THEN vector_end(it.src)
    ELSE [it EXCEPT !.index = @ + 1]

vector_value(v, it) == at(v[it.src], it.index)

(* VectorIterator.prev and advance.                                        *)
vector_prev(v, it) ==
    IF it.index = -1 THEN [it EXCEPT !.index = size(v[it.src]) - 1]
    ELSE IF it.index - 1 < 0 THEN vector_end(it.src)
    ELSE [it EXCEPT !.index = @ - 1]

vector_advance(v, it, n) ==
    LET newIndex == it.index + n
    IN  IF newIndex < 0 \/ newIndex >= size(v[it.src]) THEN vector_end(it.src)
        ELSE [it EXCEPT !.index = newIndex]

vector_equal_to(it, obj) == it.src = obj.src /\ it.index = obj.index

(* Array.splice(start, n) for start >= 0: drop n elements from start on.   *)
splice(s, start, n) ==
    SubSeq(s, 1, Min(start, Len(s))) \o SubSeq(s, start + Max(n, 0) + 1, Len(s))

(* A slip in erase_by_range: the element lastIt denotes is erased too.     *)
vector_erase_through(v, w, first, lastIt) ==
    IF first.index = -1 THEN [vec |-> v, ret |-> first]
    ELSE IF lastIt.index = -1
         THEN [vec |-> [v EXCEPT ![w] = splice(@, first.index, Len(@))],
               ret |-> vector_end(w)]
         ELSE [vec |-> [v EXCEPT ![w] =
                           splice(@, first.index, lastIt.index - first.index + 1)],
               ret |-> first]

(* erase_by_range(first, last): the elements left and the iterator         *)
(* returned.  Only the indices of the iterators are read.                  *)
vector_erase_by_range(v, w, first, lastIt) ==
    IF first.index = -1 THEN [vec |-> v, ret |-> first]
    ELSE IF lastIt.index = -1
         THEN [vec |-> [v EXCEPT ![w] = splice(@, first.index, Len(@))],
               ret |-> vector_end(w)]
         ELSE [vec |-> [v EXCEPT ![w] =
                           splice(@, first.index, lastIt.index - first.index)],
               ret |-> first]

(* erase(first, last) for VectorIterators; nothing is thrown.              *)
vector_erase(v, w, first, lastIt) ==
    LET r == vector_erase_by_range(v, w, first, lastIt)
    IN  [vec |-> r.vec, ret |-> r.ret, thrown |-> "none"]

(* push_back(val): super.push(val).                                        *)
vector_push_back(v, w, x) == [v EXCEPT ![w] = Append(@, x)]

(* A slip in pop_back: the first element is erased.                        *)
vector_pop_front(v, w) ==
    LET first == vector_begin(v, w)
    IN  vector_erase(v, w, first, vector_next(v, first))

(* pop_back(): this.erase(this.end().prev()), erase(first) taking          *)
(* first.next() for last.                                                  *)
vector_pop_back(v, w) ==
    LET first == vector_prev(v, vector_end(w))
    IN  vector_erase(v, w, first, vector_next(v, first))

(* clear(): this.erase(this.begin(), this.end()).                          *)
vector_clear(v, w) ==
    vector_erase(v, w, vector_begin(v, w), vector_end(w)).vec

(* for (; !first.equal_to(last); first = first.next())                     *)
(*     super.push(first.value);                                            *)
(* reading first.value may throw, which ends the call.                     *)
RECURSIVE push_range(_, _, _, _)
push_range(v, w, first, lastIt) ==
    IF vector_equal_to(first, lastIt) THEN [vec |-> v, thrown |-> "none"]
    ELSE LET x == vector_value(v, first)
             pushed == [v EXCEPT ![w] = Append(@, x.ret)]
         IN  IF x.thrown # "none" THEN [vec |-> v, thrown |-> x.thrown]
             ELSE push_range(pushed, w, vector_next(pushed, first), lastIt)

(* insert_by_range(position, first, last): the elements left, the         *)
(* iterator returned and the error thrown.                                 *)
vector_insert_by_range(v, w, position, first, lastIt) ==
    IF position.index = -1
    THEN LET r == push_range(v, w, first, lastIt)
         IN  [vec |-> r.vec, thrown |-> r.thrown, ret |-> vector_begin(r.vec, w)]
    ELSE LET spliced_array == SubSeq(v[w], position.index + 1, Len(v[w]))
             r == push_range([v EXCEPT ![w] = splice(@, position.index, Len(@))],
                             w, first, lastIt)
         IN  IF r.thrown # "none"
             THEN [vec |-> r.vec, thrown |-> r.thrown, ret |-> position]
             ELSE [vec |-> [r.vec EXCEPT ![w] = @ \o spliced_array],
                   thrown |-> "none", ret |-> position]

(* n copies of x.                                                          *)
Copies(n, x) == [i \in 1 .. n |-> x]

(* A slip in insert_by_repeating_val: the elements cut off at position are *)
(* not pushed back.                                                        *)
vector_insert_and_cut(v, w, position, n, x) ==
    IF position.index = -1
    THEN LET nv == [v EXCEPT ![w] = @ \o Copies(n, x)]
         IN  [vec |-> nv, thrown |-> "none", ret |-> vector_begin(nv, w)]
    ELSE [vec |-> [v EXCEPT ![w] = splice(@, position.index, Len(@)) \o Copies(n, x)],
          thrown |-> "none", ret |-> position]

(* insert_by_repeating_val(position, n, val).                              *)
vector_insert_by_repeating_val(v, w, position, n, x) ==
    IF position.index = -1
    THEN LET nv == [v EXCEPT ![w] = @ \o Copies(n, x)]
         IN  [vec |-> nv, thrown |-> "none", ret |-> vector_begin(nv, w)]
    ELSE LET spliced_array == SubSeq(v[w], position.index + 1, Len(v[w]))
         IN  [vec |-> [v EXCEPT ![w] = splice(@, position.index, Len(@))
                                       \o Copies(n, x) \o spliced_array],
              thrown |-> "none", ret |-> position]

(* insert_by_val(position, val).                                           *)
vector_insert_by_val(v, w, position, x) ==
    vector_insert_by_repeating_val(v, w, position, 1, x)

(* assign(first, second): this.clear(); this.insert(this.end(), ...).      *)
assign(v, w, first, second) ==
    LET r == vector_insert_by_range(vector_clear(v, w), w, vector_end(w),
                                    first, second)
    IN  [vec |-> r.vec, thrown |-> r.thrown]

(* swap(obj): supplement = new Vector(this.begin(), this.end());           *)
(* this.assign(obj.begin(), obj.end());                                    *)
(* obj.assign(supplement.begin(), supplement.end()).                       *)
Supplement == "supplement"

vector_swap(v, this, obj) ==
    LET v0 == [w \in DOMAIN v \cup {Supplement} |->
                  IF w \in DOMAIN v THEN v[w] ELSE <<>>]
        r1 == assign(v0, Supplement, vector_begin(v0, this), vector_end(this))
        r2 == assign(r1.vec, this, vector_begin(r1.vec, obj), vector_end(obj))
        r3 == assign(r2.vec, obj, vector_begin(r2.vec, Supplement),
                     vector_end(Supplement))
        r  == IF r1.thrown # "none" THEN r1
              ELSE IF r2.thrown # "none" THEN r2 ELSE r3
    IN  [vec |-> [w \in DOMAIN v |-> r.vec[w]], thrown |-> r.thrown]

setVars == <<cmp, data, val, tree, hist, last, other>>

(* push_back(x) on one of the vectors W.                                   *)
VectorPushBackOn(W) ==
    \E w \in W : \E x \in Elems :
        /\ kind = "vector"
        /\ Len(vec[w]) < MaxLen
        /\ vec' = vector_push_back(vec, w, x)
        /\ vlast' = [NoVectorCall EXCEPT !.op = "push_back", !.w = w, !.arg = x]
        /\ UNCHANGED <<kind, setVars>>

VectorPushBack == VectorPushBackOn(VNames)

VectorClear ==
    \E w \in VNames :
        /\ kind = "vector"
        /\ vec' = vector_clear(vec, w)
        /\ vlast' = [NoVectorCall EXCEPT !.op = "clear", !.w = w]
        /\ UNCHANGED <<kind, setVars>>

VectorSwap ==
    \E this \in VNames : \E obj \in VNames \ {this} :
        LET r == vector_swap(vec, this, obj)
        IN  /\ kind = "vector"
            /\ r.thrown = "none"
            /\ vec' = r.vec
            /\ vlast' = [NoVectorCall EXCEPT !.op = "swap", !.w = this]
            /\ UNCHANGED <<kind, setVars>>

(* The iterators begin(), end() and next() give in the current state, for  *)
(* either vector.                                                          *)
VIters ==
    {[src |-> u, index |-> i] : u \in VNames, i \in -1 .. MaxLen - 1} \
        {it \in [src : VNames, index : 0 .. MaxLen - 1] :
            it.index >= Len(vec[it.src])}

(* i denotes an element at or before the one j denotes, or j is end().     *)
AtOrBefore(i, j) ==
    /\ i.src = j.src
    /\ j.index = -1 \/ (i.index # -1 /\ i.index <= j.index)

(* What a call leaves: the elements, and the record of the call.           *)
VectorCall(r, call) ==
    /\ kind = "vector"
    /\ vec' = r.vec
    /\ vlast' = [call EXCEPT !.ret = r.ret, !.thrown = r.thrown]
    /\ UNCHANGED <<kind, setVars>>

(* The vector the insertions, erasures and reservations are made on; the   *)
(* other vector lends its iterators and its elements.  It is constructed   *)
(* from an array and not changed afterwards.                               *)
Edited == "A"

OtherArrays == {<<>>, <<1>>, <<1, 2>>}

VectorPushBackEdited == VectorPushBackOn({Edited})

(* insert(position, val); the position may come from either vector.       *)
VectorInsertVal ==
    \E w \in {Edited} : \E position \in VIters : \E x \in Elems :
        /\ Len(vec[w]) < MaxLen
        /\ VectorCall(vector_insert_by_val(vec, w, position, x),
                      [NoVectorCall EXCEPT !.op = "insert", !.w = w, !.arg = x,
                                           !.n = 1, !.position = position])

(* insert(position, n, val).                                               *)
VectorInsertFill ==
    \E w \in {Edited} : \E position \in VIters : \E x \in Elems :
        \E n \in 0 .. MaxLen - Len(vec[w]) :
            VectorCall(vector_insert_by_repeating_val(vec, w, position, n, x),
                       [NoVectorCall EXCEPT !.op = "insert_fill", !.w = w,
                            !.arg = x, !.n = n, !.position = position])

(* insert(position, first, last), the range first .. last taken from the   *)
(* other vector.                                                           *)
VectorInsertRange ==
    \E w \in {Edited} : \E position \in VIters :
        \E first \in VIters : \E second \in VIters :
            /\ first.src # w
            /\ AtOrBefore(first, second)
            /\ Len(vec[w]) + Len(vec[first.src]) <= MaxLen
            /\ VectorCall(vector_insert_by_range(vec, w, position, first, second),
                          [NoVectorCall EXCEPT !.op = "insert_range", !.w = w,
                               !.position = position, !.first = first,
                               !.second = second])

(* erase(first, last), for any two iterators.                              *)
VectorErase ==
    \E w \in {Edited} : \E first \in VIters : \E second \in VIters :
        VectorCall(vector_erase(vec, w, first, second),
                   [NoVectorCall EXCEPT !.op = "erase", !.w = w,
                        !.first = first, !.second = second])

(* erase(position): last = first.next().                                   *)
VectorEraseAt ==
    \E w \in {Edited} : \E position \in VIters :
        VectorCall(vector_erase(vec, w, position, vector_next(vec, position)),
                   [NoVectorCall EXCEPT !.op = "erase_at", !.w = w,
                        !.position = position, !.first = position,
                        !.second = vector_next(vec, position)])

(* pop_back() on either vector.                                            *)
VectorPopBack ==
    \E w \in VNames :
        VectorCall(vector_pop_back(vec, w),
                   [NoVectorCall EXCEPT !.op = "pop_back", !.w = w])

(* v.swap(v) and v.assign(v.begin(), v.end()): the iterators are taken     *)
(* before the call clears the vector.                                      *)
VectorSwapSelf ==
    \E w \in VNames :
        LET r == vector_swap(vec, w, w)
        IN  VectorCall([vec |-> r.vec, thrown |-> r.thrown, ret |-> vector_end(w)],
                       [NoVectorCall EXCEPT !.op = "swap_self", !.w = w])

VectorAssignSelf ==
    \E w \in VNames :
        LET r == assign(vec, w, vector_begin(vec, w), vector_end(w))
        IN  VectorCall([vec |-> r.vec, thrown |-> r.thrown, ret |-> vector_end(w)],
                       [NoVectorCall EXCEPT !.op = "assign_self", !.w = w,
                                            !.first = vector_begin(vec, w),
                                            !.second = vector_end(w)])

(* set(index, x): the indexes are those of the elements and those from     *)
(* size() on.                                                              *)
VectorSet ==
    \E w \in {Edited} : \E index \in 0 .. MaxLen + 1 : \E x \in Elems :
        LET r == set(vec[w], index, x)
        IN  /\ kind = "vector"
            /\ Len(r.arr) <= MaxLen
            /\ vec' = [vec EXCEPT ![w] = r.arr]
            /\ vlast' = [NoVectorCall EXCEPT !.op = "set", !.w = w, !.n = index,
                            !.arg = x, !.prev = r.ret, !.thrown = r.thrown]
            /\ UNCHANGED <<kind, setVars>>

VectorReserve ==
    \E w \in {Edited} : \E n \in 0 .. MaxLen + 1 :
        /\ kind = "vector"
        /\ vec' = [vec EXCEPT ![w] = reserve(@, n)]
        /\ vlast' = [NoVectorCall EXCEPT !.op = "reserve", !.w = w, !.n = n]
        /\ UNCHANGED <<kind, setVars>>

-----------------------------------------------------------------------------
Empty ==
    /\ data = <<>>
    /\ val = <<>>
    /\ tree = <<>>
    /\ hist = <<>>
    /\ last = NoCall
    /\ vec = [w \in VNames |-> <<>>]
    /\ vlast = NoVectorCall

Constructed ==
    /\ kind \in Kinds
    /\ Empty
    /\ other = NoSet("less")

(* Constructed with the default comparator, or with a comparator.          *)
Init == Constructed /\ cmp = "less"

InitCompare == Constructed /\ cmp \in Comparators

NextInsert == InsertVal

SpecInsert == Init /\ [][NextInsert]_vars

Next == InsertVal \/ EraseIt \/ EraseRange \/ Clear \/ InsertHint

Spec == Init /\ [][Next]_vars

SpecCompare == InitCompare /\ [][NextInsert]_vars

(* Insertions only, by value and by hint.                                  *)
NextInserts == InsertVal \/ InsertHint

SpecInserts == Init /\ [][NextInserts]_vars

(* Two tree sets, each constructed with a comparator, or two Vectors.      *)
InitSets == kind \in Kinds /\ Empty /\ cmp \in Comparators
            /\ \E c \in Comparators : other = NoSet(c)

InitVector == kind = "vector" /\ Empty /\ cmp = "less" /\ other = NoSet("less")

InitEither == InitSets \/ InitVector

NextVector == VectorPushBack \/ VectorClear \/ VectorSwap

SpecVector == InitVector /\ [][NextVector]_vars

(* A tree set constructed with a comparator, filled and cleared.           *)
NextCompareClear == InsertVal \/ Clear

SpecCompareClear == InitCompare /\ [][NextCompareClear]_vars

(* A tree set or a Vector, filled, emptied and cleared.                    *)
InitClear == Init \/ InitVector

NextClear == InsertVal \/ EraseIt \/ Clear \/ VectorPushBack \/ VectorClear

SpecClear == InitClear /\ [][NextClear]_vars

(* A vector filled and inserted into; filled and erased from; filled,      *)
(* cleared and reserved.                                                   *)
InitVectorEdit ==
    /\ kind = "vector"
    /\ data = <<>> /\ val = <<>> /\ tree = <<>> /\ hist = <<>>
    /\ last = NoCall /\ cmp = "less" /\ other = NoSet("less")
    /\ \E b \in OtherArrays : vec = [w \in VNames |-> IF w = Edited THEN <<>> ELSE b]
    /\ vlast = NoVectorCall

NextVectorInsert ==
    \/ VectorPushBackEdited
    \/ VectorInsertVal
    \/ VectorInsertFill
    \/ VectorInsertRange

SpecVectorInsert == InitVectorEdit /\ [][NextVectorInsert]_vars

NextVectorErase == VectorPushBackEdited \/ VectorErase \/ VectorEraseAt

SpecVectorErase == InitVectorEdit /\ [][NextVectorErase]_vars

NextVectorEdit == NextVectorInsert \/ VectorErase \/ VectorEraseAt

SpecVectorEdit == InitVectorEdit /\ [][NextVectorEdit]_vars

NextVectorReserve == VectorPushBack \/ VectorClear \/ VectorReserve

SpecVectorReserve == InitVector /\ [][NextVectorReserve]_vars

NextVectorPop == VectorPushBack \/ VectorPopBack

SpecVectorPop == InitVector /\ [][NextVectorPop]_vars

NextVectorSelf == VectorPushBack \/ VectorSwapSelf \/ VectorAssignSelf

SpecVectorSelf == InitVector /\ [][NextVectorSelf]_vars

NextVectorSet == VectorPushBackEdited \/ VectorSet

SpecVectorSet == InitVector /\ [][NextVectorSet]_vars

NextEither == InsertVal \/ Swap \/ NextVector

SpecEither == InitEither /\ [][NextEither]_vars

-----------------------------------------------------------------------------
(* What the claims speak of.                                               *)

(* The values met walking a sequence of cells from its first to its last.  *)
Vals(s) == [i \in 1 .. Len(s) |-> val[s[i]]]

(* The cells of the list whose value equals k.                             *)
CellsOf(k) == {c \in Range(data) : val[c] = k}

RECURSIVE SortSet(_)
SortSet(S) ==
    IF S = {} THEN <<>>
    ELSE LET m == CHOOSE x \in S : \A y \in S : x <= y
         IN  <<m>> \o SortSet(S \ {m})

sort_unique(S) == SortSet(Range(S))

RECURSIVE sort_stable(_)
sort_stable(S) ==
    IF S = <<>> THEN <<>>
    ELSE LET sorted == sort_stable(SubSeq(S, 1, Len(S) - 1))
             x == S[Len(S)]
             k == Cardinality({i \in 1 .. Len(sorted) : sorted[i] <= x})
         IN  InsertAt(sorted, k + 1, x)

(* C1: for TreeSet and TreeMultiSet, after any sequence of insert(value),  *)
(* insert(hint, value), erase(iterator), erase(range) and clear(), the     *)
(* tree holds exactly one node per cell of the list and no other node, and *)
(* its in-order walk meets the same values as the forward walk of the      *)
(* list.                                                                   *)
C1_TreeMatchesList ==
    /\ Len(tree) = Len(data)
    /\ Range(tree) = Range(data)
    /\ Vals(tree) = Vals(data)

(* C2: inserting the elements of S one by one with insert(value) into an   *)
(* empty TreeSet with the default comparator and then iterating from       *)
(* begin() to end() yields the distinct values of S in strictly ascending  *)
(* order.                                                                  *)
C2_SetRoundTrip ==
    (kind = "set" /\ cmp = "less") => Vals(data) = sort_unique(hist)

C2_Witness ==
    /\ kind = "set"
    /\ hist = <<3, 1, 1, 2>>
    /\ Vals(data) = <<1, 2, 3>>

(* C3: inserting the elements of S one by one with insert(value) into an   *)
(* empty TreeMultiSet with the default comparator and then iterating       *)
(* yields all elements of S, duplicates kept, in non-decreasing order, and *)
(* size() is the length of S.                                              *)
C3_MultiRoundTrip ==
    (kind = "multiset" /\ cmp = "less") =>
        /\ Len(data) = Len(hist)
        /\ Vals(data) = sort_stable(hist)

C3_Witness ==
    /\ kind = "multiset"
    /\ hist = <<2, 1, 2>>
    /\ Vals(data) = <<1, 2, 2>>

(* C4: after any sequence of insert and erase operations on a TreeSet,     *)
(* find(k) returns an iterator to the cell of the list whose key is k      *)
(* exactly when there is one, and end() otherwise.                         *)
C4_FindMatchesList ==
    kind = "set" =>
        \A k \in Values : \A r \in find(k) :
            IF CellsOf(k) = {} THEN r = End ELSE r \in CellsOf(k)

(* C5: for a TreeSet constructed with any strict weak ordering comp, after *)
(* any sequence of insertions no two cells of the set are equivalent under *)
(* comp.                                                                   *)
C5_UniqueUnderComparator ==
    kind = "set" =>
        \A i, j \in 1 .. Len(data) :
            i # j => \/ Compare(val[data[i]], val[data[j]])
                     \/ Compare(val[data[j]], val[data[i]])

(* C6: for a TreeSet or TreeMultiSet constructed with a comparator comp,   *)
(* after any sequence of insert(value) the forward iteration is ordered by *)
(* comp: for consecutive cells a then b, comp(b, a) is false.              *)
C6_OrderedByComparator ==
    \A i \in 1 .. (Len(data) - 1) :
        ~Compare(val[data[i + 1]], val[data[i]])

(* The first cell of the list whose value is strictly greater than k, or   *)
(* end() when there is none.                                               *)
FirstGreater(k) ==
    LET above == {i \in 1 .. Len(data) : less(k, val[data[i]])}
    IN  IF above = {} THEN End
        ELSE data[CHOOSE i \in above : \A j \in above : i <= j]

(* C7: TreeSet.upper_bound(k) returns an iterator to the first element     *)
(* strictly greater than k, or end() when there is none, for every set     *)
(* content and every k, k present in the set included.                     *)
C7_UpperBoundStrictlyGreater ==
    kind = "set" => \A k \in Values : upper_bound(k) = FirstGreater(k)

(* The cells of the list from iterator a up to, not including, iterator b. *)
Between(a, b) ==
    LET from == IF a = End THEN Len(data) + 1 ELSE PosOf(data, a)
        to == IF b = End THEN Len(data) + 1 ELSE PosOf(data, b)
    IN  {data[i] : i \in from .. (to - 1)}

(* C8: for TreeSet and TreeMultiSet and every key k, equal_range(k) is the *)
(* pair (lower_bound(k), upper_bound(k)) of the same container in the same *)
(* state, and the half-open range between its iterators holds exactly the  *)
(* cells equivalent to k.                                                  *)
C8_EqualRangeIsBounds ==
    \A k \in Values :
        /\ equal_range(k) = <<lower_bound(k), upper_bound(k)>>
        /\ Between(equal_range(k)[1], equal_range(k)[2]) = CellsOf(k)

(* C9: TreeSet.insert(value) returns (it, true), it the new cell, and      *)
(* size() grows by one when no equal element was present; when an equal    *)
(* element is present it returns (it, false), it the existing cell, and    *)
(* the element sequence and size() are unchanged.                          *)
C9_InsertResult ==
    (kind = "set" /\ last.op = "insert") =>
        IF \A c \in Range(last.pre) : val[c] # last.arg
        THEN /\ last.inserted
             /\ last.ret \in Range(data) \ Range(last.pre)
             /\ val[last.ret] = last.arg
             /\ Len(data) = Len(last.pre) + 1
        ELSE /\ ~last.inserted
             /\ last.ret \in Range(last.pre)
             /\ val[last.ret] = last.arg
             /\ data = last.pre

(* The hint of the last call is a right hint of the list it was given:     *)
(* less(hint.value, value), and hint.next is end() or                      *)
(* less(value, hint.next.value).                                           *)
RightHint ==
    /\ last.hint # End
    /\ less(val[last.hint], last.arg)
    /\ LET p == PosOf(last.pre, last.hint)
       IN  p = Len(last.pre) \/ less(last.arg, val[last.pre[p + 1]])

(* The values of the list insert(value) leaves, given the list before: the *)
(* value goes before the first element not less than it, unless present.   *)
AfterInsert(pre, v) ==
    IF \E i \in 1 .. Len(pre) : pre[i] = v THEN pre
    ELSE InsertAt(pre, Cardinality({i \in 1 .. Len(pre) : pre[i] < v}) + 1, v)

(* C10: TreeSet.insert(hint, value) with a right hint places the new cell  *)
(* directly after the hint cell, immediately before hint.next; with any    *)
(* other hint the element list is the same as after insert(value).  Stated *)
(* for the hints that denote a cell, whose value the code may read.        *)
C10_HintPlacement ==
    (kind = "set" /\ last.op = "insert_hint" /\ last.hint # End) =>
        IF RightHint
        THEN /\ last.inserted
             /\ data = InsertAt(last.pre, PosOf(last.pre, last.hint) + 1, last.ret)
        ELSE Vals(data) = AfterInsert(Vals(last.pre), last.arg)

(* The values of a sequence ascend, strictly or not.                       *)
Ascending(s, strict) ==
    \A i \in 1 .. Len(s) - 1 :
        IF strict THEN less(s[i], s[i + 1]) ELSE ~less(s[i + 1], s[i])

(* C11: TreeSet.insert(hint, value) with a value already present returns   *)
(* an iterator to the existing equal element, not end(), and leaves the    *)
(* element sequence and size() unchanged, for every hint.                  *)
C11_HintDuplicate ==
    (/\ kind = "set"
     /\ last.op = "insert_hint"
     /\ \E c \in Range(last.pre) : val[c] = last.arg) =>
        /\ last.ret \in Range(last.pre)
        /\ val[last.ret] = last.arg
        /\ data = last.pre

(* C12: for every hint that denotes a cell of the container and every      *)
(* value, a list that was sorted before insert(hint, value) is sorted      *)
(* after it: strictly ascending for TreeSet, non-decreasing for            *)
(* TreeMultiSet, whether the hint was right or wrong.                      *)
C12_HintKeepsOrder ==
    (/\ last.op = "insert_hint"
     /\ last.hint \in Range(last.pre)
     /\ Ascending(Vals(last.pre), kind = "set")) =>
        Ascending(Vals(data), kind = "set")

(* C13: for a TreeMultiSet after any sequence of insert(value) and for     *)
(* every k, count(k) is the number of cells of the list whose value equals *)
(* k, whichever of the equal cells find(k) lands on.                       *)
C13_CountIsMultiplicity ==
    kind = "multiset" =>
        \A k \in Values : count(k) = {Cardinality(CellsOf(k))}

(* C14: an insertion into a TreeSet or TreeMultiSet, by value or by hint,  *)
(* invalidates no iterator: every cell of the list before the call is a    *)
(* cell of the list after it, with the same value, and the walk of the     *)
(* list after the call meets the old cells in their old order.             *)
C14_InsertKeepsIterators ==
    [][last'.op \in {"insert", "insert_hint"} =>
          /\ \A c \in Range(data) : c \in Range(data') /\ val'[c] = val[c]
          /\ SelectSeq(data', LAMBDA c : c \in Range(data)) = data]_vars

(* A cell was inserted by hint between two cells that were there before.   *)
C14_Witness ==
    /\ last.op = "insert_hint"
    /\ last.inserted
    /\ Len(last.pre) = 2
    /\ data = <<last.pre[1], last.ret, last.pre[2]>>

(* The container the last clear() was called on is empty.                  *)
Cleared ==
    /\ last.op = "clear" =>
          /\ Len(data) = 0
          /\ begin = End
          /\ \A k \in Values : find(k) = {End}
    /\ vlast.op = "clear" =>
          /\ size(vec[vlast.w]) = 0
          /\ vector_equal_to(vector_begin(vec, vlast.w), vector_end(vlast.w))

(* A clear() that follows a clear() of the same container changes nothing. *)
ClearTwice ==
    /\ (last.op = "clear" /\ last'.op = "clear") =>
          (data' = data /\ tree' = tree /\ cmp' = cmp)
    /\ (vlast.op = "clear" /\ vlast'.op = "clear" /\ vlast'.w = vlast.w) =>
          vec' = vec

(* C15: clear() on a Vector, TreeSet or TreeMultiSet in any state leaves   *)
(* the container empty: size() is 0, begin() equals end(), and for the     *)
(* tree sets find(k) is end() for every k; clear() again leaves the same   *)
(* empty container.                                                        *)
C15_ClearEmpties == []Cleared /\ [][ClearTwice]_vars

(* clear() was called on a tree set that an earlier call had emptied of    *)
(* its two or more cells.                                                  *)
C15_Witness ==
    /\ kind = "multiset"
    /\ last.op = "clear"
    /\ last.pre = <<>>
    /\ Len(val) >= 2

(* clear() leaves the comparator as it was, and the list and the tree as   *)
(* the constructor leaves them.                                            *)
ClearKeepsCompare ==
    last'.op = "clear" =>
        /\ key_comp' = key_comp
        /\ value_comp' = value_comp
        /\ data' = <<>>
        /\ tree' = <<>>

(* C16: TreeSet.clear() preserves the comparator: key_comp() and           *)
(* value_comp() return the same comparator before and after it, and it     *)
(* leaves the list and the tree as in a set freshly constructed with that  *)
(* comparator, which is all the insertions read: a set with the default    *)
(* comparator holds sort_unique of the values inserted since the clear().  *)
C16_ClearKeepsComparator ==
    /\ [][kind = "set" => ClearKeepsCompare]_vars
    /\ []((kind = "set" /\ cmp = "less") => Vals(data) = sort_unique(hist))

(* A TreeSet constructed with a descending comparator was cleared of a     *)
(* cell and then given two values.                                         *)
C16_Witness ==
    /\ kind = "set"
    /\ key_comp = "greater"
    /\ last.op = "insert"
    /\ Len(data) = 2
    /\ Len(val) > Len(data) + Len(other.data)

(* The step of a swap leaves each container with the other's elements, in  *)
(* their order, and each tree set with the other's comparator.             *)
SwapExchanges ==
    /\ last'.op = "swap" =>
          /\ data' = other.data
          /\ other'.data = data
          /\ key_comp' = other.cmp
          /\ other'.cmp = key_comp
    /\ vlast'.op = "swap" =>
          /\ vec'["A"] = vec["B"]
          /\ vec'["B"] = vec["A"]

(* C17: A.swap(B) for two TreeSets, two TreeMultiSets or two Vectors       *)
(* exchanges their contents: afterwards A iterates the former elements of  *)
(* B in order and B the former elements of A; for the tree sets the        *)
(* comparator moves with the contents.                                     *)
C17_SwapExchanges == [][SwapExchanges]_vars

(* Two tree sets constructed with different comparators were swapped, one  *)
(* holding two elements and the other one.                                 *)
C17_Witness ==
    /\ last.op = "swap"
    /\ Len(last.pre) = 2
    /\ other.data = last.pre
    /\ Len(data) = 1
    /\ key_comp # other.cmp

(* The elements met from the iterator it on, stepping with next() until    *)
(* end(); a read that throws ends the walk with Undefined.                 *)
RECURSIVE vector_walk(_, _)
vector_walk(v, it) ==
    IF it.index = -1 THEN <<>>
    ELSE LET x == vector_value(v, it)
         IN  IF x.thrown # "none" THEN <<Undefined>>
             ELSE <<x.ret>> \o vector_walk(v, vector_next(v, it))

(* The iterator a walk with next() from it ends at.                        *)
RECURSIVE vector_walk_end(_, _)
vector_walk_end(v, it) ==
    IF it.index = -1 THEN it ELSE vector_walk_end(v, vector_next(v, it))

(* An iterator taken from the vector w before the swap denotes, after it,  *)
(* the element it denoted, now in the vector to; the walk from it meets    *)
(* the elements that followed and ends at to.end().                        *)
MovedIterators(w, to) ==
    \A i \in 0 .. Len(vec[w]) - 1 :
        LET it == [src |-> w, index |-> i]
        IN  /\ vector_value(vec', it) = vector_value(vec, it)
            /\ vector_walk(vec', it) = SubSeq(vec'[to], i + 1, Len(vec'[to]))
            /\ vector_equal_to(vector_walk_end(vec', it), vector_end(to))

(* C18: after A.swap(B) an iterator obtained from A before the swap        *)
(* belongs to B: it denotes the same element as before, and next() from it *)
(* visits the remaining elements of what is now B's content and ends at an *)
(* iterator equal to B.end().  Stated for two Vectors, whose iterators are *)
(* a vector and an index.                                                  *)
C18_SwapMovesIterators ==
    [][vlast'.op = "swap" =>
          MovedIterators("A", "B") /\ MovedIterators("B", "A")]_vars

(* The indices at() is asked for: those of the elements, the -1 of end(),  *)
(* and those past the last element.                                        *)
Indexes == -1 .. MaxLen + 1

(* C19: Vector.at(index) returns the element at position index when        *)
(* 0 <= index < size() and fails with OutOfRange for every other index,    *)
(* negative ones included.                                                 *)
C19_AtChecksBothEnds ==
    \A w \in VNames : \A index \in Indexes :
        IF 0 <= index /\ index < size(vec[w])
        THEN at(vec[w], index) = [thrown |-> "none", ret |-> vec[w][index + 1]]
        ELSE at(vec[w], index).thrown = "OutOfRange"

(* C20: on an empty Vector front() and back() both fail with OutOfRange;   *)
(* on a non-empty one front() returns the first element and back() the     *)
(* last.                                                                   *)
C20_FrontBack ==
    \A w \in VNames :
        IF size(vec[w]) = 0
        THEN /\ front(vec[w]).thrown = "OutOfRange"
             /\ back(vec[w]).thrown = "OutOfRange"
        ELSE /\ front(vec[w]) = [thrown |-> "none", ret |-> vec[w][1]]
             /\ back(vec[w]) = [thrown |-> "none", ret |-> vec[w][Len(vec[w])]]

(* C28: inserting ascending new keys into a TreeSet with hint = end() on   *)
(* every call costs O(1) per call: each insertion of a value greater than  *)
(* every element is accepted as a right hint and placed at the end of the  *)
(* list, without the fall back to the tree search of insert(value).        *)
C28_EndHintIsRight ==
    (/\ kind = "set"
     /\ last.op = "insert_hint"
     /\ last.hint = End
     /\ \A c \in Range(last.pre) : less(val[c], last.arg)) =>
        /\ last.right
        /\ data = Append(last.pre, last.ret)

(* The calls that insert, and the calls that erase.                        *)
Inserts == {"insert", "insert_fill", "insert_range"}

Erasures == {"erase", "erase_at"}

(* The range last .. first is inverted: both are iterators of the vector   *)
(* w, last denotes an element, and first is end() or denotes a later one.  *)
Inverted(w, first, second) ==
    /\ first.src = w
    /\ second.src = w
    /\ second.index # -1
    /\ first.index = -1 \/ first.index > second.index

(* C21: Vector.erase(first, last) with an inverted range, last denoting an *)
(* element that precedes first, fails with an invalid-argument error and   *)
(* leaves the contents and the size of the vector unchanged.               *)
C21_ErasedInvertedRange ==
    [][(/\ vlast'.op = "erase"
        /\ Inverted(vlast'.w, vlast'.first, vlast'.second)) =>
            (vlast'.thrown = "InvalidArgument" /\ vec' = vec)]_vars

(* The call was given an iterator of the other vector.                     *)
ForeignIterator(call) ==
    \/ call.op \in Inserts /\ call.position.src # call.w
    \/ call.op \in Erasures /\ (call.first.src # call.w \/ call.second.src # call.w)

(* C22: Vector.insert, as position, or Vector.erase given an iterator that *)
(* was obtained from a different Vector fails with an invalid-argument     *)
(* error and changes neither vector.                                       *)
C22_ForeignIteratorRejected ==
    [][ForeignIterator(vlast') =>
          (vlast'.thrown = "InvalidArgument" /\ vec' = vec)]_vars

(* The index an insertion at position puts its first element at.           *)
InsertIndex(s, position) ==
    IF position.index = -1 THEN Len(s) ELSE position.index

(* C23: insert(position, val) returns an iterator that denotes the new     *)
(* element, and insert(position, n, val) and insert(position, first, last) *)
(* one that denotes the first of the new elements, for every position of   *)
(* the vector, end() on a non-empty vector included.                       *)
C23_InsertReturnsFirstNew ==
    [][(/\ vlast'.op \in Inserts
        /\ vlast'.position.src = vlast'.w
        /\ Len(vec'[vlast'.w]) > Len(vec[vlast'.w])) =>
            vlast'.ret = [src |-> vlast'.w,
                          index |-> InsertIndex(vec[vlast'.w], vlast'.position)]]_vars

(* The elements of the range first .. last.                                *)
RangeOf(v, first, second) ==
    IF first.index = -1 THEN <<>>
    ELSE SubSeq(v[first.src], first.index + 1,
                IF second.index = -1 THEN Len(v[first.src]) ELSE second.index)

(* The elements a call to insert is asked to insert.                       *)
Inserted(v, call) ==
    IF call.op = "insert_range" THEN RangeOf(v, call.first, call.second)
    ELSE Copies(call.n, call.arg)

(* C24: insert(position, n, val) on a vector P ++ Q, position denoting the *)
(* first element of Q or being end() with Q empty, leaves P ++ n copies of *)
(* val ++ Q; insert(position, first, last) with a range of another vector  *)
(* leaves P ++ range ++ Q, the range in its order; size() grows by the     *)
(* number inserted and the other vector is unchanged.                      *)
C24_InsertSplices ==
    [][(vlast'.op \in Inserts /\ vlast'.position.src = vlast'.w) =>
          LET w == vlast'.w
              p == InsertIndex(vec[w], vlast'.position)
              P == SubSeq(vec[w], 1, p)
              Q == SubSeq(vec[w], p + 1, Len(vec[w]))
              new == Inserted(vec, vlast')
          IN  /\ vec'[w] = P \o new \o Q
              /\ size(vec'[w]) = size(vec[w]) + Len(new)
              /\ \A u \in VNames \ {w} : vec'[u] = vec[u]]_vars

(* One copy was inserted between two elements, and two elements of the     *)
(* other vector were.                                                      *)
C24_Witness ==
    /\ vlast.op = "insert_fill"
    /\ vlast.n = 1
    /\ vlast.position = [src |-> "A", index |-> 1]
    /\ vec["A"] = <<1, 2, 1>>

Advances == (0 - MaxLen - 1) .. (MaxLen + 1)

(* The iterators one call of next(), prev() or advance() gives from those  *)
(* of I, together with I.                                                  *)
Stepped(v, I) ==
    I \cup {vector_next(v, it) : it \in I}
      \cup {vector_prev(v, it) : it \in I}
      \cup {vector_advance(v, it, n) : it \in I, n \in Advances}

RECURSIVE Produced(_, _)
Produced(v, I) ==
    LET J == Stepped(v, I) IN IF J = I THEN I ELSE Produced(v, J)

(* The iterators begin(), end(), next(), prev() and advance() produce for  *)
(* the vector w.                                                           *)
VectorIterators(v, w) == Produced(v, {vector_begin(v, w), vector_end(w)})

(* The iterator denotes an element of its vector.                          *)
Denotes(v, it) == it.index \in 0 .. size(v[it.src]) - 1

(* C26: in every reachable state, for every Vector and every iterator that *)
(* begin(), end(), next(), prev() or advance() produce for it, the         *)
(* iterator equals end() exactly when it denotes no element; begin()       *)
(* equals end() exactly when the vector is empty; and the end() of one     *)
(* vector never equals an iterator of another vector.                      *)
C26_EndIsTheSentinel ==
    kind = "vector" =>
        \A w \in VNames :
            /\ \A it \in VectorIterators(vec, w) :
                   vector_equal_to(it, vector_end(w)) <=> ~Denotes(vec, it)
            /\ vector_equal_to(vector_begin(vec, w), vector_end(w)) <=> vec[w] = <<>>
            /\ \A u \in VNames \ {w} : \A it \in VectorIterators(vec, u) :
                   /\ ~vector_equal_to(vector_end(w), it)
                   /\ ~vector_equal_to(it, vector_end(w))

(* One vector holds two elements and has three iterators, the other is     *)
(* empty and has end() only.                                               *)
C26_Witness ==
    /\ kind = "vector"
    /\ Len(vec["A"]) = 2
    /\ Cardinality(VectorIterators(vec, "A")) = 3
    /\ vec["B"] = <<>>
    /\ VectorIterators(vec, "B") = {vector_end("B")}

(* The number of next() steps from i to j; Undefined if j is not met       *)
(* within fuel steps.                                                      *)
RECURSIVE distance(_, _, _, _)
distance(v, i, j, fuel) ==
    IF vector_equal_to(i, j) THEN 0
    ELSE IF fuel = 0 THEN Undefined
    ELSE LET d == distance(v, vector_next(v, i), j, fuel - 1)
         IN  IF d = Undefined THEN Undefined ELSE d + 1

Fuel == MaxLen + 2

(* C27: for the iterators i, j of a Vector with i at or before j, the      *)
(* next() steps from i to j and from j to end() add up to those from i to  *)
(* end(); the walk from begin() meets end() after exactly size() steps and *)
(* visits the elements at the indices 0 .. size() - 1 in order.            *)
C27_DistancesAddUp ==
    kind = "vector" =>
        \A w \in VNames :
            /\ \A i, j \in {it \in VIters : it.src = w} :
                   AtOrBefore(i, j) =>
                       /\ distance(vec, i, j, Fuel) # Undefined
                       /\ distance(vec, j, vector_end(w), Fuel) # Undefined
                       /\ distance(vec, i, j, Fuel) + distance(vec, j, vector_end(w), Fuel)
                              = distance(vec, i, vector_end(w), Fuel)
            /\ distance(vec, vector_begin(vec, w), vector_end(w), Fuel) = size(vec[w])
            /\ vector_walk(vec, vector_begin(vec, w)) = vec[w]

(* A vector of three elements: three steps from begin() to end(), one of   *)
(* them from begin() to the second element.                                *)
C27_Witness ==
    /\ kind = "vector"
    /\ Len(vec["A"]) = 3
    /\ distance(vec, vector_begin(vec, "A"), vector_end("A"), Fuel) = 3
    /\ distance(vec, vector_begin(vec, "A"), [src |-> "A", index |-> 1], Fuel) = 1

(* C29: Vector.reserve(n) changes nothing: the contents, size() and        *)
(* capacity() of every vector are the same before and after the call, for  *)
(* every n; and capacity() equals size() in every reachable state.         *)
C29_ReserveIsNoOp ==
    /\ [](kind = "vector" => \A w \in VNames : capacity(vec[w]) = size(vec[w]))
    /\ [][vlast'.op = "reserve" =>
            /\ vec' = vec
            /\ \A w \in VNames : /\ size(vec'[w]) = size(vec[w])
                                 /\ capacity(vec'[w]) = capacity(vec[w])]_vars

(* reserve was called with more than the size of a non-empty vector.       *)
C29_Witness ==
    /\ vlast.op = "reserve"
    /\ vec[vlast.w] # <<>>
    /\ vlast.n > size(vec[vlast.w])

(* C31: Vector.set(index, val) with 0 <= index < size() replaces exactly   *)
(* the element at index and returns the value it held, the size and the    *)
(* other elements being unchanged; with index >= size() it fails with      *)
(* OutOfRange and leaves the vector unchanged; set never changes size().   *)
C31_SetReplacesOne ==
    [][vlast'.op = "set" =>
          LET w == vlast'.w
              index == vlast'.n
          IN  /\ size(vec'[w]) = size(vec[w])
              /\ index < size(vec[w]) =>
                    /\ vlast'.thrown = "none"
                    /\ vlast'.prev = vec[w][index + 1]
                    /\ vec' = [vec EXCEPT ![w][index + 1] = vlast'.arg]
              /\ index >= size(vec[w]) =>
                    /\ vlast'.thrown = "OutOfRange"
                    /\ vec' = vec]_vars

(* The sequence without its last element; the empty sequence stays empty.  *)
ButLast(s) == SubSeq(s, 1, Len(s) - 1)

(* C32: push_back(v) appends v as the last element, the earlier elements   *)
(* being unchanged; pop_back() on a non-empty vector removes exactly the   *)
(* last element and on an empty vector leaves it empty without failing;    *)
(* push_back(v) followed by pop_back() restores the contents.              *)
C32_PushPopBack ==
    /\ [](kind = "vector" =>
             \A w \in VNames : \A x \in Elems :
                 LET r == vector_pop_back(vector_push_back(vec, w, x), w)
                 IN  r.vec = vec /\ r.thrown = "none")
    /\ [][/\ vlast'.op = "push_back" =>
                vec' = [vec EXCEPT ![vlast'.w] = Append(@, vlast'.arg)]
          /\ vlast'.op = "pop_back" =>
                /\ vlast'.thrown = "none"
                /\ vec' = [vec EXCEPT ![vlast'.w] = ButLast(@)]]_vars

(* The last of three elements was popped.                                  *)
C32_Witness ==
    /\ vlast.op = "pop_back"
    /\ vlast.w = "A"
    /\ vec["A"] = <<1, 2>>

(* C33: for every iterator of a non-empty vector, end() included,          *)
(* advance(1) equals next() and advance(-1) equals prev(); for an iterator *)
(* at the index i, advance(n) denotes the element at i + n when            *)
(* 0 <= i + n < size() and is end() otherwise.                             *)
C33_AdvanceIsNextPrev ==
    kind = "vector" =>
        \A w \in VNames :
            vec[w] # <<>> =>
                \A it \in {i \in VIters : i.src = w} :
                    /\ vector_equal_to(vector_advance(vec, it, 1), vector_next(vec, it))
                    /\ vector_equal_to(vector_advance(vec, it, -1), vector_prev(vec, it))
                    /\ it.index # -1 =>
                          \A n \in Advances :
                              vector_advance(vec, it, n) =
                                  IF it.index + n \in 0 .. size(vec[w]) - 1
                                  THEN [src |-> w, index |-> it.index + n]
                                  ELSE vector_end(w)

(* C34: v.swap(v) and v.assign(v.begin(), v.end()) on a non-empty vector   *)
(* complete without failing and leave the contents and the size of v       *)
(* unchanged.                                                              *)
C34_OwnElementsHarmless ==
    [][(/\ vlast'.op \in {"swap_self", "assign_self"}
        /\ vec[vlast'.w] # <<>>) =>
            /\ vlast'.thrown = "none"
            /\ vec' = vec
            /\ size(vec'[vlast'.w]) = size(vec[vlast'.w])]_vars

====
